----------------------------- MODULE Spec2Model -----------------------------
(***************************************************************************)
(* Model of the "Meu Jovinho" game backend (src/backend/server.py).        *)
(*                                                                         *)
(* The service is a set of stateless request handlers in front of one      *)
(* MongoDB collection, game_data_collection.  The state is the collection  *)
(* (documents in natural order), the server clock read by datetime.now(),  *)
(* the requests that are between two store calls, and the response of the  *)
(* request that has just returned.                                         *)
(*                                                                         *)
(* A handler is one step per store call, each step running the handler's   *)
(* code up to its next store call; other requests run between the steps.   *)
(* save_game_data reads the clock and then calls update_one;               *)
(* record_game_session calls find_one, then merges and reads the clock,    *)
(* then calls update_one; the leaderboard, the rank and the statistics     *)
(* make two or three reads of the collection.  update_one(..., upsert=True) on a    *)
(* collection without a unique index is atomic when it matches a document, *)
(* but when it matches none its insert is a later step of the store:       *)
(* two upserts for the same new player_id can both match nothing and both  *)
(* insert (server.py creates no index on player_id).                       *)
(*                                                                         *)
(* Optional values (a find_one result, the pending response) are sequences *)
(* of length 0 (None) or 1.  A store call that raises (the handlers turn   *)
(* it into HTTP 500) changes nothing and is not a step of the model.       *)
(***************************************************************************)
EXTENDS Integers, Sequences, FiniteSets, Bags, TLC

VARIABLES store, nextId, now, inflight, resp

vars == <<store, nextId, now, inflight, resp>>

-----------------------------------------------------------------------------
(* Bounds of the model *)

\* the highest level a request body carries
MaxLevel == 2
\* the largest score a request body carries
MaxScore == 1
\* the largest item count a request body carries
MaxItems == 1
\* the largest games_played a save carries
MaxGames == 1
\* datetime.now() is called at most MaxClock times: write requests admitted
MaxClock == 2
\* requests that may be between two store calls at the same time
MaxInflight == 2
\* of these, the leaderboard, rank and statistics requests
MaxQueries == 1
\* largest ?limit= of a leaderboard request
MaxLimit == 3

Players == {"p1", "p2"}
\* level: int.  0 is below the documented range, 1 is the default level
LevelVals == {0, 1, MaxLevel}
\* score: int, a negative value included
ScoreVals == {0 - 1, MaxScore}
\* items_collected and games_played: one value each, added up by the merge
ItemVals == {MaxItems}
GamesVals == {MaxGames}
\* limit: int.  0 and negative values have their own meaning for the cursor
LimitVals == (0 - 1)..MaxLimit

\* Python's None where the other values are integers (last_played, rank)
None == 0

Max(a, b) == IF a >= b THEN a ELSE b
Min(a, b) == IF a <= b THEN a ELSE b
Abs(a) == IF a >= 0 THEN a ELSE 0 - a

-----------------------------------------------------------------------------
(* Request bodies *)

\* a last_played sent by the caller: a time the server clock never shows
CallerTime == MaxClock + 1

\* class GameData: last_played is Optional, here the caller sends one
GameData ==
    [player_id : Players, current_level : LevelVals, max_level : LevelVals,
     total_score : ScoreVals, items_collected : ItemVals,
     games_played : GamesVals, last_played : {CallerTime}]

\* class GameSession (time_played is accepted and never read)
GameSession ==
    [player_id : Players, level : LevelVals, score : ScoreVals,
     items_collected : ItemVals, completed : BOOLEAN]

-----------------------------------------------------------------------------
(* The document store: the pymongo calls the handlers make *)

\* dict.get(key, default)
DocGet(doc, key, default) == IF key \in DOMAIN doc THEN doc[key] ELSE default

\* indexes of the documents matching {"player_id": p}, in natural order
Matching(coll, p) == {i \in 1..Len(coll) : coll[i].player_id = p}

FirstMatch(coll, p) == CHOOSE i \in Matching(coll, p) : \A j \in Matching(coll, p) : i <= j

\* collection.find_one({"player_id": p}): the first match, or None
find_one(coll, p) ==
    IF Matching(coll, p) = {} THEN <<>> ELSE <<coll[FirstMatch(coll, p)]>>

\* {"$set": fields} applied to one document
SetFields(doc, fields) ==
    [k \in (DOMAIN doc) \cup (DOMAIN fields) |->
        IF k \in DOMAIN fields THEN fields[k] ELSE doc[k]]

\* update_one({"player_id": p}, {"$set": fields}) when a document matches:
\* the first match is updated in place
update_matched(coll, p, fields) ==
    [coll EXCEPT ![FirstMatch(coll, p)] = SetFields(@, fields)]

\* the document an upsert inserts: the filter's equality fields, the $set
\* fields and a fresh _id
upsert_doc(p, fields, id) ==
    SetFields([_id |-> id, player_id |-> p], fields)

\* delete_one({"player_id": p}): removes the first match, if any
delete_one(coll, p) ==
    IF Matching(coll, p) = {} THEN coll
    ELSE LET i == FirstMatch(coll, p)
         IN  SubSeq(coll, 1, i - 1) \o SubSeq(coll, i + 1, Len(coll))

\* count_documents({})
count_documents(coll) == Len(coll)


-----------------------------------------------------------------------------
(* Handler bodies as functions of what they read *)

\* get_game_data with the defaults of a new player starting at level 0
get_game_data_level0(coll, player_id) ==
    LET game_data == find_one(coll, player_id)
    IN  IF Len(game_data) = 0
        THEN [player_id |-> player_id, current_level |-> 0, max_level |-> 0,
              total_score |-> 0, items_collected |-> 0, games_played |-> 0,
              last_played |-> None]
        ELSE [game_data[1] EXCEPT !._id = ToString(@)]

\* get_game_data: the stored document with _id as a string, or the defaults
get_game_data(coll, player_id) ==
    LET game_data == find_one(coll, player_id)
    IN  IF Len(game_data) = 0
        THEN [player_id |-> player_id, current_level |-> 1, max_level |-> 1,
              total_score |-> 0, items_collected |-> 0, games_played |-> 0,
              last_played |-> None]
        ELSE [game_data[1] EXCEPT !._id = ToString(@)]

\* the session merge with one field computed differently:
\*   "games"  counts a game only when the session was completed
\*   "fresh"  gives a new player the reported level whether completed or not
\*   "nomax"  stores the reported level as max_level of a completed session
\*   "level"  moves current_level to the reported level of any session
new_data_variant(which, session, current_data, t) ==
    IF Len(current_data) = 0
    THEN [player_id |-> session.player_id,
          current_level |-> IF session.completed \/ which = "fresh"
                            THEN session.level ELSE 1,
          max_level |-> IF session.completed \/ which = "fresh"
                        THEN session.level ELSE 1,
          total_score |-> session.score,
          items_collected |-> session.items_collected,
          games_played |-> 1,
          last_played |-> t]
    ELSE LET cur == current_data[1]
         IN  [player_id |-> session.player_id,
              current_level |-> IF session.completed \/ which = "level"
                                THEN session.level
                                ELSE DocGet(cur, "current_level", 1),
              max_level |-> IF session.completed
                            THEN (IF which = "nomax" THEN session.level
                                  ELSE Max(session.level, DocGet(cur, "max_level", 1)))
                            ELSE DocGet(cur, "max_level", 1),
              total_score |-> DocGet(cur, "total_score", 0) + session.score,
              items_collected |-> DocGet(cur, "items_collected", 0)
                                      + session.items_collected,
              games_played |-> DocGet(cur, "games_played", 0)
                                  + (IF which = "games" /\ ~session.completed
                                     THEN 0 ELSE 1),
              last_played |-> t]

new_data_games(session, current_data, t) ==
    new_data_variant("games", session, current_data, t)

new_data_fresh(session, current_data, t) ==
    new_data_variant("fresh", session, current_data, t)

new_data_nomax(session, current_data, t) ==
    new_data_variant("nomax", session, current_data, t)

new_data_level(session, current_data, t) ==
    new_data_variant("level", session, current_data, t)

\* record_game_session, lines 129-150: the merge of a session into what
\* find_one returned, stamped with the time t read by datetime.now()
new_data(session, current_data, t) ==
    IF Len(current_data) = 0
    THEN [player_id |-> session.player_id,
          current_level |-> IF session.completed THEN session.level ELSE 1,
          max_level |-> IF session.completed THEN session.level ELSE 1,
          total_score |-> session.score,
          items_collected |-> session.items_collected,
          games_played |-> 1,
          last_played |-> t]
    ELSE LET cur == current_data[1]
         IN  [player_id |-> session.player_id,
              current_level |-> IF session.completed THEN session.level
                                ELSE DocGet(cur, "current_level", 1),
              max_level |-> IF session.completed
                            THEN Max(session.level, DocGet(cur, "max_level", 1))
                            ELSE DocGet(cur, "max_level", 1),
              total_score |-> DocGet(cur, "total_score", 0) + session.score,
              items_collected |-> DocGet(cur, "items_collected", 0)
                                      + session.items_collected,
              games_played |-> DocGet(cur, "games_played", 0) + 1,
              last_played |-> t]

-----------------------------------------------------------------------------
(* Leaderboard, rank and statistics as functions of the collection *)

Perms(n) == {f \in [1..n -> 1..n] : \A i, j \in 1..n : i # j => f[i] # f[j]}

\* the sort without its tie-break on total_score
SortsBefore_level_only(a, b) == a.max_level > b.max_level

\* a comes before b under sort([("max_level", -1), ("total_score", -1)])
SortsBefore(a, b) ==
    \/ a.max_level > b.max_level
    \/ a.max_level = b.max_level /\ a.total_score > b.total_score

\* the orders find().sort(...) may return: documents equal on both keys come
\* in any order
SortOrders(coll) ==
    {f \in Perms(Len(coll)) :
        \A i, j \in 1..Len(coll) : i < j => ~SortsBefore(coll[f[j]], coll[f[i]])}

\* cursor.limit(n): 0 is no limit, a negative n limits to its absolute value
cursor_limit(docs, n) ==
    IF n = 0 THEN docs ELSE SubSeq(docs, 1, Min(Abs(n), Len(docs)))

\* find().sort(...).limit(limit) with the sort returning the order f
find_sort_limit(coll, limit, f) ==
    cursor_limit([i \in 1..Len(coll) |-> coll[f[i]]], limit)

\* get_leaderboard, lines 179-195: the documents found, formatted with
\* their positions, and the count that count_documents returned
get_leaderboard(leaderboard, total_players) ==
    [leaderboard |->
        [i \in 1..Len(leaderboard) |->
            [rank |-> i,
             player_id |-> leaderboard[i].player_id,
             max_level |-> DocGet(leaderboard[i], "max_level", 1),
             total_score |-> DocGet(leaderboard[i], "total_score", 0),
             items_collected |-> DocGet(leaderboard[i], "items_collected", 0),
             games_played |-> DocGet(leaderboard[i], "games_played", 0),
             last_played |-> DocGet(leaderboard[i], "last_played", None)]],
     total_players |-> total_players]

\* the $or filter with $gte in place of $gt on total_score
BetterPlayers_gte(coll, player_data) ==
    {i \in 1..Len(coll) :
        \/ coll[i].max_level > DocGet(player_data, "max_level", 1)
        \/ /\ coll[i].max_level = DocGet(player_data, "max_level", 1)
           /\ coll[i].total_score >= DocGet(player_data, "total_score", 0)}

\* the documents counted by the $or filter of get_player_rank
BetterPlayers(coll, player_data) ==
    {i \in 1..Len(coll) :
        \/ coll[i].max_level > DocGet(player_data, "max_level", 1)
        \/ /\ coll[i].max_level = DocGet(player_data, "max_level", 1)
           /\ coll[i].total_score > DocGet(player_data, "total_score", 0)}

\* get_player_rank, line 208: find_one returned None
player_not_found == [rank |-> None, message |-> "Player not found"]

\* get_player_rank, lines 221-234: the response from the document found and
\* the two counts
get_player_rank(player_id, player_data, better_players, total_players) ==
    [rank |-> better_players + 1,
     total_players |-> total_players,
     player_data |->
        [player_id |-> player_id,
         max_level |-> DocGet(player_data, "max_level", 1),
         total_score |-> DocGet(player_data, "total_score", 0),
         items_collected |-> DocGet(player_data, "items_collected", 0),
         games_played |-> DocGet(player_data, "games_played", 0)]]

\* {"$sum": "$key"} over the documents
RECURSIVE SumField(_, _)
SumField(coll, key) ==
    IF Len(coll) = 0 THEN 0
    ELSE coll[1][key] + SumField(Tail(coll), key)

\* {"$min": "$key"} in place of $max
MaxField_min(coll, key) ==
    CHOOSE m \in {coll[i][key] : i \in 1..Len(coll)} :
        \A i \in 1..Len(coll) : coll[i][key] >= m

\* {"$max": "$key"} over a non-empty collection
MaxField(coll, key) ==
    CHOOSE m \in {coll[i][key] : i \in 1..Len(coll)} :
        \A i \in 1..Len(coll) : coll[i][key] <= m

\* aggregate(pipeline): one $group row, no row on an empty collection
aggregate(coll) ==
    IF Len(coll) = 0 THEN <<>>
    ELSE <<[_id |-> None,
            total_score |-> SumField(coll, "total_score"),
            total_items_collected |-> SumField(coll, "items_collected"),
            total_games_played |-> SumField(coll, "games_played"),
            max_level_reached |-> MaxField(coll, "max_level")]>>

\* get_game_statistics, lines 262-280: the response from the count and the
\* rows of the aggregation.  Python's true division is kept as numerator
\* and denominator.
get_game_statistics(total_players, stats_result) ==
    IF Len(stats_result) > 0
    THEN LET stats == stats_result[1]
         IN  [total_players |-> total_players,
              total_score |-> DocGet(stats, "total_score", 0),
              total_items_collected |-> DocGet(stats, "total_items_collected", 0),
              total_games_played |-> DocGet(stats, "total_games_played", 0),
              max_level_reached |-> DocGet(stats, "max_level_reached", 1),
              average_score_per_player |->
                  [num |-> DocGet(stats, "total_score", 0),
                   den |-> Max(total_players, 1)]]
    ELSE [total_players |-> 0, total_score |-> 0,
          total_items_collected |-> 0, total_games_played |-> 0,
          max_level_reached |-> 1,
          average_score_per_player |-> [num |-> 0, den |-> 1]]

-----------------------------------------------------------------------------
(* Initial state: an empty collection, no request running *)

Init ==
    /\ store = <<>>
    /\ nextId = 1
    /\ now = 1
    /\ inflight = EmptyBag
    /\ resp = <<>>

One(r) == SetToBag({r})

\* a handler may start a store call when no response is being handed back
Ready == Len(resp) = 0

\* the sessions that have not called datetime.now() yet
Waiting == [r \in {q \in BagToSet(inflight) : q.pc = "merge"} |-> inflight[r]]

\* the leaderboard, rank and statistics requests between two store calls
Queries ==
    {r \in BagToSet(inflight) :
        r.op \in {"get_leaderboard", "get_player_rank", "get_game_statistics"}}

\* a request that will make a further store call can be taken on
Room == BagCardinality(inflight) < MaxInflight

QueryRoom == Room /\ Cardinality(Queries) < MaxQueries

-----------------------------------------------------------------------------
(* GET /api/game-data/{player_id} *)

GetGameData(player_id) ==
    /\ Ready
    /\ resp' = <<[op |-> "get_game_data", player_id |-> player_id,
                  ret |-> get_game_data(store, player_id)]>>
    /\ UNCHANGED <<store, nextId, now, inflight>>

-----------------------------------------------------------------------------
(* POST /api/game-data *)

save_response(body, game_data, modified, upserted) ==
    [op |-> "save_game_data", body |-> body, game_data |-> game_data,
     ret |-> [success |-> TRUE, message |-> "Game data saved successfully",
              modified_count |-> modified, upserted_id |-> upserted]]

\* line 102: the handler stamps the body with the time it reads
SaveGameData(body) ==
    /\ Ready
    /\ now + BagCardinality(Waiting) <= MaxClock
    /\ Room
    /\ inflight' = inflight (+) One([op |-> "save_game_data", pc |-> "update",
                        body |-> body,
                        game_data |-> [body EXCEPT !.last_played = now]])
    /\ now' = now + 1
    /\ UNCHANGED <<store, nextId, resp>>

\* line 105, update_one's match: a matched document is updated at once,
\* otherwise the upsert goes on to insert
SaveUpdate(r) ==
    /\ Ready
    /\ r.op = "save_game_data" /\ r.pc = "update"
    /\ LET p == r.game_data.player_id
       IN  IF Matching(store, p) # {}
           THEN /\ store' = update_matched(store, p, r.game_data)
                /\ inflight' = inflight (-) One(r)
                /\ resp' = <<save_response(r.body, r.game_data,
                                IF store' # store THEN 1 ELSE 0, "None")>>
           ELSE /\ inflight' = (inflight (-) One(r))
                                   (+) One([r EXCEPT !.pc = "insert"])
                /\ UNCHANGED <<store, resp>>
    /\ UNCHANGED <<nextId, now>>

\* the insert of a save's upsert that matched nothing
SaveInsert(r) ==
    /\ Ready
    /\ r.op = "save_game_data" /\ r.pc = "insert"
    /\ store' = Append(store, upsert_doc(r.game_data.player_id, r.game_data, nextId))
    /\ nextId' = nextId + 1
    /\ inflight' = inflight (-) One(r)
    /\ resp' = <<save_response(r.body, r.game_data, 0, ToString(nextId))>>
    /\ UNCHANGED now

-----------------------------------------------------------------------------
(* POST /api/game-session *)

session_response(session, current_data, data) ==
    [op |-> "record_game_session", session |-> session,
     current_data |-> current_data,
     ret |-> [success |-> TRUE,
              message |-> "Game session recorded successfully",
              updated_data |-> data]]

\* line 127: find_one
SessionFind(session) ==
    /\ Ready
    /\ now + BagCardinality(Waiting) <= MaxClock
    /\ Room
    /\ inflight' = inflight (+) One([op |-> "record_game_session",
                        pc |-> "merge", session |-> session,
                        current_data |-> find_one(store, session.player_id),
                        new_data |-> <<>>])
    /\ UNCHANGED <<store, nextId, now, resp>>

\* lines 129-150: the merge, stamped with the time datetime.now() returns
SessionMerge(r) ==
    /\ Ready
    /\ r.op = "record_game_session" /\ r.pc = "merge"
    /\ inflight' = (inflight (-) One(r))
          (+) One([r EXCEPT !.pc = "update",
                            !.new_data = <<new_data(r.session, r.current_data, now)>>])
    /\ now' = now + 1
    /\ UNCHANGED <<store, nextId, resp>>

\* line 153, update_one's match
SessionUpdate(r) ==
    /\ Ready
    /\ r.op = "record_game_session" /\ r.pc = "update"
    /\ LET p == r.session.player_id
       IN  IF Matching(store, p) # {}
           THEN /\ store' = update_matched(store, p, r.new_data[1])
                /\ inflight' = inflight (-) One(r)
                /\ resp' = <<session_response(r.session, r.current_data,
                                              r.new_data[1])>>
           ELSE /\ inflight' = (inflight (-) One(r))
                                   (+) One([r EXCEPT !.pc = "insert"])
                /\ UNCHANGED <<store, resp>>
    /\ UNCHANGED <<nextId, now>>

\* the insert of a session's upsert that matched nothing
SessionInsert(r) ==
    /\ Ready
    /\ r.op = "record_game_session" /\ r.pc = "insert"
    /\ store' = Append(store, upsert_doc(r.session.player_id, r.new_data[1], nextId))
    /\ nextId' = nextId + 1
    /\ inflight' = inflight (-) One(r)
    /\ resp' = <<session_response(r.session, r.current_data, r.new_data[1])>>
    /\ UNCHANGED now

-----------------------------------------------------------------------------
(* DELETE /api/admin/reset-player/{player_id} *)

ResetPlayerData(player_id) ==
    /\ Ready
    /\ store' = delete_one(store, player_id)
    /\ resp' = <<[op |-> "reset_player_data", player_id |-> player_id,
                  ret |-> [success |-> TRUE,
                           message |-> "Player " \o player_id
                                          \o " data reset successfully",
                           deleted_count |-> Len(store) - Len(store')]]>>
    /\ UNCHANGED <<nextId, now, inflight>>

-----------------------------------------------------------------------------
(* GET /api/leaderboard *)

\* lines 175-177: the sorted, limited scan
GetLeaderboard(limit) ==
    /\ Ready
    /\ QueryRoom
    /\ \E f \in SortOrders(store) :
          inflight' = inflight (+) One([op |-> "get_leaderboard",
                          pc |-> "count", limit |-> limit,
                          leaderboard |-> find_sort_limit(store, limit, f)])
    /\ UNCHANGED <<store, nextId, now, resp>>

\* line 194: count_documents({}), and the response
LeaderboardCount(r) ==
    /\ Ready
    /\ r.op = "get_leaderboard" /\ r.pc = "count"
    /\ inflight' = inflight (-) One(r)
    /\ resp' = <<[op |-> "get_leaderboard", limit |-> r.limit,
                  ret |-> get_leaderboard(r.leaderboard, count_documents(store))]>>
    /\ UNCHANGED <<store, nextId, now>>

-----------------------------------------------------------------------------
(* GET /api/player-rank/{player_id} *)

\* lines 206-208: find_one, answered at once when there is no document
GetPlayerRank(player_id) ==
    /\ Ready
    /\ LET player_data == find_one(store, player_id)
       IN  IF Len(player_data) = 0
           THEN /\ resp' = <<[op |-> "get_player_rank", player_id |-> player_id,
                              ret |-> player_not_found]>>
                /\ UNCHANGED inflight
           ELSE /\ QueryRoom
                /\ inflight' = inflight (+) One([op |-> "get_player_rank",
                                    pc |-> "better", player_id |-> player_id,
                                    player_data |-> player_data[1],
                                    better_players |-> 0])
                /\ UNCHANGED resp
    /\ UNCHANGED <<store, nextId, now>>

\* line 211: count_documents of the $or filter
RankBetter(r) ==
    /\ Ready
    /\ r.op = "get_player_rank" /\ r.pc = "better"
    /\ inflight' = (inflight (-) One(r))
          (+) One([r EXCEPT !.pc = "total",
                            !.better_players =
                                Cardinality(BetterPlayers(store, r.player_data))])
    /\ UNCHANGED <<store, nextId, now, resp>>

\* line 222: count_documents({}), and the response
RankTotal(r) ==
    /\ Ready
    /\ r.op = "get_player_rank" /\ r.pc = "total"
    /\ inflight' = inflight (-) One(r)
    /\ resp' = <<[op |-> "get_player_rank", player_id |-> r.player_id,
                  ret |-> get_player_rank(r.player_id, r.player_data,
                              r.better_players, count_documents(store))]>>
    /\ UNCHANGED <<store, nextId, now>>

-----------------------------------------------------------------------------
(* GET /api/stats *)

\* line 245: count_documents({})
GetGameStatistics ==
    /\ Ready
    /\ QueryRoom
    /\ inflight' = inflight (+) One([op |-> "get_game_statistics",
                        pc |-> "aggregate",
                        total_players |-> count_documents(store)])
    /\ UNCHANGED <<store, nextId, now, resp>>

\* line 260: the aggregation, and the response
StatsAggregate(r) ==
    /\ Ready
    /\ r.op = "get_game_statistics" /\ r.pc = "aggregate"
    /\ inflight' = inflight (-) One(r)
    /\ resp' = <<[op |-> "get_game_statistics",
                  ret |-> get_game_statistics(r.total_players, aggregate(store))]>>
    /\ UNCHANGED <<store, nextId, now>>

-----------------------------------------------------------------------------
(* the response leaves the server *)

Return ==
    /\ Len(resp) = 1
    /\ resp' = <<>>
    /\ UNCHANGED <<store, nextId, now, inflight>>

Next ==
    \/ \E p \in Players : GetGameData(p)
    \/ \E body \in GameData : SaveGameData(body)
    \/ \E r \in BagToSet(inflight) : SaveUpdate(r)
    \/ \E r \in BagToSet(inflight) : SaveInsert(r)
    \/ \E s \in GameSession : SessionFind(s)
    \/ \E r \in BagToSet(inflight) : SessionMerge(r)
    \/ \E r \in BagToSet(inflight) : SessionUpdate(r)
    \/ \E r \in BagToSet(inflight) : SessionInsert(r)
    \/ \E p \in Players : ResetPlayerData(p)
    \/ \E limit \in LimitVals : GetLeaderboard(limit)
    \/ \E r \in BagToSet(inflight) : LeaderboardCount(r)
    \/ \E p \in Players : GetPlayerRank(p)
    \/ \E r \in BagToSet(inflight) : RankBetter(r)
    \/ \E r \in BagToSet(inflight) : RankTotal(r)
    \/ GetGameStatistics
    \/ \E r \in BagToSet(inflight) : StatsAggregate(r)
    \/ Return

Spec == Init /\ [][Next]_vars

-----------------------------------------------------------------------------
(* Properties of the write path, checked under Spec *)

\* the response being handed back is that of handler op
Returned(op) == Len(resp) = 1 /\ resp[1].op = op

\* document doc holds every field of record rec with rec's value
Holds(doc, rec) == \A k \in DOMAIN rec : k \in DOMAIN doc /\ doc[k] = rec[k]

\* some stored document of player p holds record rec
Stored(p, rec) == \E i \in Matching(store, p) : Holds(store[i], rec)

\* C1: a session recorded for a player whose document P was found is stored
\* and returned with games_played = P.games_played + 1, total_score and
\* items_collected grown by the session's deltas whatever completed is; a
\* completed session sets current_level to its level and max_level to the
\* larger of its level and P.max_level, an incomplete one keeps both.
C1_SessionMergesIntoExisting ==
    (Returned("record_game_session") /\ Len(resp[1].current_data) = 1) =>
        LET P == resp[1].current_data[1]
            S == resp[1].session
            R == resp[1].ret.updated_data
        IN  /\ R.games_played = P.games_played + 1
            /\ R.total_score = P.total_score + S.score
            /\ R.items_collected = P.items_collected + S.items_collected
            /\ S.completed =>
                  /\ R.current_level = S.level
                  /\ R.max_level = Max(S.level, P.max_level)
            /\ ~S.completed =>
                  /\ R.current_level = P.current_level
                  /\ R.max_level = P.max_level
            /\ Stored(S.player_id, R)

\* an incomplete session at a level above the player's has been merged into
\* a document that was found
C1_Witness ==
    /\ Returned("record_game_session")
    /\ Len(resp[1].current_data) = 1
    /\ ~resp[1].session.completed
    /\ resp[1].session.level > resp[1].current_data[1].max_level
    /\ resp[1].ret.updated_data.games_played = 2

\* C2: a session recorded for a player whose document was not found is
\* stored with games_played = 1, the session's deltas as totals, and both
\* levels equal to the reported level if completed, to 1 otherwise.
C2_SessionCreatesFresh ==
    (Returned("record_game_session") /\ Len(resp[1].current_data) = 0) =>
        LET S == resp[1].session
            R == resp[1].ret.updated_data
        IN  /\ R.games_played = 1
            /\ R.total_score = S.score
            /\ R.items_collected = S.items_collected
            /\ R.current_level = (IF S.completed THEN S.level ELSE 1)
            /\ R.max_level = (IF S.completed THEN S.level ELSE 1)
            /\ Stored(S.player_id, R)

\* an incomplete session at the highest level has created a player's
\* document after an earlier document was inserted and removed by a reset
C2_Witness ==
    /\ Returned("record_game_session")
    /\ Len(resp[1].current_data) = 0
    /\ ~resp[1].session.completed
    /\ resp[1].session.level = MaxLevel
    /\ resp[1].ret.updated_data.current_level = 1
    /\ nextId = 3
    /\ Len(store) = 1

\* C3: when a save has returned, get for its player returns the saved
\* current_level, max_level, total_score, items_collected and games_played,
\* and a last_played that is not None and is the server time of the save,
\* not the caller's.
C3_SaveThenGet ==
    Returned("save_game_data") =>
        LET body == resp[1].body
            got == get_game_data(store, body.player_id)
        IN  /\ got.current_level = body.current_level
            /\ got.max_level = body.max_level
            /\ got.total_score = body.total_score
            /\ got.items_collected = body.items_collected
            /\ got.games_played = body.games_played
            /\ got.last_played # None
            /\ got.last_played = resp[1].game_data.last_played
            /\ got.last_played \in 1..(now - 1)

\* C4: get for a player with no stored document returns the default record
\* carrying the identifier, and leaves the player without a document.
C4_GetDefaults ==
    Returned("get_game_data") =>
        LET p == resp[1].player_id
            ret == resp[1].ret
        IN  /\ ("_id" \in DOMAIN ret) <=> (Matching(store, p) # {})
            /\ Matching(store, p) = {} =>
                  ret = [player_id |-> p, current_level |-> 1, max_level |-> 1,
                         total_score |-> 0, items_collected |-> 0,
                         games_played |-> 0, last_played |-> None]

\* get has answered for a player without a document while another player
\* has one
C4_Witness ==
    /\ Returned("get_game_data")
    /\ Matching(store, resp[1].player_id) = {}
    /\ resp[1].ret.last_played = None
    /\ Len(store) = 1

\* C7: when a reset has returned, get for its player returns the default
\* record (the player has no document), and deleted_count is 0 or 1.
C7_ResetThenGet ==
    Returned("reset_player_data") =>
        /\ resp[1].ret.deleted_count \in {0, 1}
        /\ Matching(store, resp[1].player_id) = {}
        /\ "_id" \notin DOMAIN get_game_data(store, resp[1].player_id)

\* C9 as stated: no step that keeps the documents in place (a save or a
\* session updating a stored document) lowers a stored max_level.
C9_MaxLevelNeverLowered ==
    [][Len(store') = Len(store) =>
          \A i \in 1..Len(store) : store'[i].max_level >= store[i].max_level]_vars

\* C9 amended: the max_level a session stores is at least the max_level of
\* the document its find_one returned, so sessions never lower what they
\* read; a save stores the caller's max_level, which may be lower.
C9_SessionKeepsMaxLevelRead ==
    (Returned("record_game_session") /\ Len(resp[1].current_data) = 1) =>
        /\ resp[1].ret.updated_data.max_level >= resp[1].current_data[1].max_level
        /\ Stored(resp[1].session.player_id,
                  [max_level |-> resp[1].ret.updated_data.max_level])

\* a completed session at a level below the max_level it read has been stored
C9_Witness ==
    /\ Returned("record_game_session")
    /\ Len(resp[1].current_data) = 1
    /\ resp[1].session.completed
    /\ resp[1].session.level < resp[1].current_data[1].max_level
    /\ resp[1].ret.updated_data.max_level = MaxLevel

\* C10: a player identifier has at most one stored document.
C10_OneDocumentPerPlayer ==
    \A p \in Players : Cardinality(Matching(store, p)) <= 1

-----------------------------------------------------------------------------
(* Properties of the queries, checked under Spec.  A query reads the        *)
(* collection once per store call; each part of its response is stated     *)
(* over the collection at the call that produced it.                       *)

\* the requests that have just made their first store call
Started == BagToSet(inflight') \ BagToSet(inflight)

\* the requests that have just made a further store call
Advanced == BagToSet(inflight) \ BagToSet(inflight')

\* C5: leaderboard(limit = N), N >= 1, finds min(N, number of documents)
\* documents of the collection, none outranked by a document left out,
\* ordered by max_level descending then total_score descending, and returns
\* them with the entry at position i carrying rank i, tied or not;
\* total_players is the number of documents counted.
C5_LeaderboardOrder ==
    [][/\ \A r \in Started : (r.op = "get_leaderboard" /\ r.limit >= 1) =>
             LET L == r.leaderboard
                 listed == {L[i]._id : i \in 1..Len(L)}
             IN  /\ Len(L) = Min(r.limit, Len(store))
                 /\ \A i \in 1..Len(L) : \E k \in 1..Len(store) : store[k] = L[i]
                 /\ \A i, j \in 1..Len(L) : i < j =>
                       /\ L[i]._id # L[j]._id
                       /\ \/ L[i].max_level > L[j].max_level
                          \/ /\ L[i].max_level = L[j].max_level
                             /\ L[i].total_score >= L[j].total_score
                 /\ \A k \in 1..Len(store) : store[k]._id \notin listed =>
                       \A i \in 1..Len(L) :
                           \/ L[i].max_level > store[k].max_level
                           \/ /\ L[i].max_level = store[k].max_level
                              /\ L[i].total_score >= store[k].total_score
       /\ \A r \in Advanced : (r.op = "get_leaderboard" /\ r.limit >= 1) =>
             /\ Len(resp') = 1
             /\ resp'[1].op = "get_leaderboard"
             /\ resp'[1].ret.total_players = Len(store)
             /\ Len(resp'[1].ret.leaderboard) = Len(r.leaderboard)
             /\ \A i \in 1..Len(r.leaderboard) :
                   /\ resp'[1].ret.leaderboard[i].rank = i
                   /\ Holds(r.leaderboard[i],
                            [k \in {"player_id", "max_level", "total_score",
                                    "items_collected", "games_played",
                                    "last_played"} |->
                                resp'[1].ret.leaderboard[i][k]])]_vars

\* a leaderboard asked for more players than the two stored, the two tied
\* on both keys and ranked 1 and 2
C5_Witness ==
    /\ Returned("get_leaderboard")
    /\ resp[1].limit = MaxLimit
    /\ Len(store) = 2
    /\ store[1].player_id # store[2].player_id
    /\ Len(resp[1].ret.leaderboard) = 2
    /\ resp[1].ret.leaderboard[1].max_level = resp[1].ret.leaderboard[2].max_level
    /\ resp[1].ret.leaderboard[1].total_score = resp[1].ret.leaderboard[2].total_score
    /\ resp[1].ret.leaderboard[2].rank = 2
    /\ resp[1].ret.total_players = 2

\* the documents strictly ahead of document d: a greater max_level, or the
\* same max_level and a greater total_score
Ahead(d) ==
    {i \in 1..Len(store) :
        \/ store[i].max_level > d.max_level
        \/ store[i].max_level = d.max_level /\ store[i].total_score > d.total_score}

\* the rank of player p over collection coll, None without a document
rank_in(coll, p) ==
    IF Matching(coll, p) = {} THEN None
    ELSE Cardinality(BetterPlayers(coll, coll[FirstMatch(coll, p)])) + 1

\* C6: player_rank of a stored player is 1 + the number of documents
\* strictly ahead of the player's document, so players tied on (max_level,
\* total_score) get the same rank; for a player without a document the rank
\* is None with the message "Player not found".
C6_CompetitionRank ==
    [][/\ (Len(resp) = 0 /\ Len(resp') = 1 /\ resp'[1].op = "get_player_rank"
              /\ inflight' = inflight) =>
             /\ Matching(store, resp'[1].player_id) = {}
             /\ resp'[1].ret.rank = None
             /\ resp'[1].ret.message = "Player not found"
       /\ \A r \in Started : (r.op = "get_player_rank" /\ r.pc = "better") =>
             /\ Matching(store, r.player_id) # {}
             /\ r.player_data = store[FirstMatch(store, r.player_id)]
       /\ \A r \in Started : (r.op = "get_player_rank" /\ r.pc = "total") =>
             /\ r.better_players = Cardinality(Ahead(r.player_data))
             /\ \A i \in 1..Len(store) :
                   (/\ store[i].max_level = r.player_data.max_level
                    /\ store[i].total_score = r.player_data.total_score) =>
                       rank_in(store, store[i].player_id) = r.better_players + 1
       /\ \A r \in Advanced : (r.op = "get_player_rank" /\ r.pc = "total") =>
             /\ Len(resp') = 1
             /\ resp'[1].op = "get_player_rank"
             /\ resp'[1].ret.rank = 1 + r.better_players
             /\ resp'[1].ret.rank # None
             /\ resp'[1].ret.player_data.player_id = r.player_id]_vars

\* a rank of 1 returned for the player stored second, tied with the player
\* stored first
C6_Witness ==
    /\ Returned("get_player_rank")
    /\ Len(store) = 2
    /\ store[2].player_id = resp[1].player_id
    /\ store[1].player_id # resp[1].player_id
    /\ store[1].max_level = resp[1].ret.player_data.max_level
    /\ store[1].total_score = resp[1].ret.player_data.total_score
    /\ resp[1].ret.rank = 1
    /\ rank_in(store, store[1].player_id) = 1

\* the sum of field key over the first n documents
RECURSIVE Total(_, _)
Total(key, n) == IF n = 0 THEN 0 ELSE Total(key, n - 1) + store[n][key]

\* C8: stats counts the documents, and returns that count with the sums
\* of total_score, items_collected and games_played over the documents,
\* the greatest max_level, and as average the sum of total_score over
\* max(count, 1); over an empty collection every sum and the average are 0
\* and max_level_reached is 1.
C8_Statistics ==
    [][/\ \A r \in Started : r.op = "get_game_statistics" =>
             r.total_players = Len(store)
       /\ \A r \in Advanced : r.op = "get_game_statistics" =>
             /\ Len(resp') = 1
             /\ resp'[1].op = "get_game_statistics"
             /\ LET ret == resp'[1].ret
                    n == Len(store)
                    avg == ret.average_score_per_player
                IN  /\ ret.total_score = Total("total_score", n)
                    /\ ret.total_items_collected = Total("items_collected", n)
                    /\ ret.total_games_played = Total("games_played", n)
                    /\ avg.den > 0
                    /\ avg.num * Max(ret.total_players, 1)
                           = Total("total_score", n) * avg.den
                    /\ n > 0 =>
                          /\ ret.total_players = r.total_players
                          /\ \A i \in 1..n : store[i].max_level <= ret.max_level_reached
                          /\ \E i \in 1..n : store[i].max_level = ret.max_level_reached
                    /\ n = 0 =>
                          /\ ret.total_players = 0
                          /\ ret.max_level_reached = 1
                          /\ avg.num = 0]_vars

\* statistics over two players with different max_levels and scores that
\* cancel out
C8_Witness ==
    /\ Returned("get_game_statistics")
    /\ Len(store) = 2
    /\ resp[1].ret.total_players = 2
    /\ resp[1].ret.total_score = 0
    /\ resp[1].ret.total_games_played = 2 * MaxGames
    /\ resp[1].ret.max_level_reached = MaxLevel
    /\ \E i \in 1..Len(store) : store[i].max_level < MaxLevel

-----------------------------------------------------------------------------
(* Sessions only: no save and no reset touches any player *)

SessionNext ==
    \/ \E s \in GameSession : SessionFind(s)
    \/ \E r \in BagToSet(inflight) : SessionMerge(r)
    \/ \E r \in BagToSet(inflight) : SessionUpdate(r)
    \/ \E r \in BagToSet(inflight) : SessionInsert(r)
    \/ \E p \in Players : GetGameData(p)
    \/ Return

SessionSpec == Init /\ [][SessionNext]_vars

\* C11: every session that is recorded grows the player's games_played by
\* one and total_score and items_collected by its deltas: the record get
\* returns once the session has returned is the record it returned just
\* before, with one more game and the deltas added (a player without a
\* document counting as 0 games, score 0, 0 items).
C11_NoSessionLost ==
    [][(Len(resp') = 1 /\ resp'[1].op = "record_game_session") =>
          LET S == resp'[1].session
              before == get_game_data(store, S.player_id)
              after == get_game_data(store', S.player_id)
          IN  /\ after.games_played = before.games_played + 1
              /\ after.total_score = before.total_score + S.score
              /\ after.items_collected = before.items_collected + S.items_collected]_vars

-----------------------------------------------------------------------------
(* Ranges of the stored fields, checked under Spec *)

\* C12: every stored document has current_level >= 1, max_level >= 1,
\* total_score >= 0, items_collected >= 0 and games_played >= 0.
C12_FieldsInRange ==
    \A i \in 1..Len(store) :
        /\ store[i].current_level >= 1
        /\ store[i].max_level >= 1
        /\ store[i].total_score >= 0
        /\ store[i].items_collected >= 0
        /\ store[i].games_played >= 0

\* C13: a session merged into a document that was found returns and stores
\* a total_score and an items_collected at least as large as the
\* document's.
C13_TotalsNeverDecrease ==
    (Returned("record_game_session") /\ Len(resp[1].current_data) = 1) =>
        /\ resp[1].ret.updated_data.total_score
               >= resp[1].current_data[1].total_score
        /\ resp[1].ret.updated_data.items_collected
               >= resp[1].current_data[1].items_collected

\* C14: a session recorded for a player whose document was not found, or
\* was found with current_level <= max_level, stores and returns a record
\* with current_level <= max_level.
C14_SessionKeepsLevelOrder ==
    (/\ Returned("record_game_session")
     /\ \/ Len(resp[1].current_data) = 0
        \/ resp[1].current_data[1].current_level
               <= resp[1].current_data[1].max_level) =>
        LET R == resp[1].ret.updated_data
        IN  /\ R.current_level <= R.max_level
            /\ Stored(resp[1].session.player_id,
                      [current_level |-> R.current_level,
                       max_level |-> R.max_level])

\* an incomplete session at the highest level has been merged into a
\* document found with current_level below a max_level below that level
C14_Witness ==
    /\ Returned("record_game_session")
    /\ Len(resp[1].current_data) = 1
    /\ ~resp[1].session.completed
    /\ resp[1].session.level = MaxLevel
    /\ resp[1].current_data[1].current_level < resp[1].current_data[1].max_level
    /\ resp[1].current_data[1].max_level < MaxLevel
    /\ resp[1].ret.updated_data.current_level < resp[1].ret.updated_data.max_level

-----------------------------------------------------------------------------
(* Sessions and resets only, for the consequence drawn in C14 *)

SessionResetNext ==
    \/ SessionNext
    \/ \E p \in Players : ResetPlayerData(p)

SessionResetSpec == Init /\ [][SessionResetNext]_vars

\* the consequence of C14: when only sessions and resets write, every stored
\* document has current_level <= max_level (an invariant of SessionResetSpec)
C14_SessionsOnlyLevelOrder ==
    \A i \in 1..Len(store) : store[i].current_level <= store[i].max_level

-----------------------------------------------------------------------------
(* The two ranks over one collection, checked under Spec *)

\* no two stored documents share (max_level, total_score)
NoTies ==
    \A i, j \in 1..Len(store) :
        (/\ i # j
         /\ store[i].max_level = store[j].max_level) =>
            store[i].total_score # store[j].total_score

\* the entries of the unlimited leaderboard of the collection, sorted in
\* order f
entries_in(coll, f) ==
    get_leaderboard(find_sort_limit(coll, 0, f), count_documents(coll)).leaderboard

\* C15: over any one collection, the rank player_rank gives a player listed
\* in the unlimited leaderboard is at most the rank the leaderboard gives
\* it, and the two are equal for every player when no two documents share
\* (max_level, total_score).
C15_RankBelowPosition ==
    \A f \in SortOrders(store) :
        LET L == entries_in(store, f)
        IN  \A i \in 1..Len(L) :
                /\ rank_in(store, L[i].player_id) # None
                /\ rank_in(store, L[i].player_id) <= L[i].rank
                /\ NoTies => rank_in(store, L[i].player_id) = L[i].rank

=============================================================================
